---- MODULE Spec2Model ----
(***************************************************************************)
(* Model of qutebrowser/browser/webengine/notification.py:                 *)
(* DBusNotificationManager, the bridge that forwards QtWebEngine           *)
(* notifications to org.freedesktop.Notifications over the session bus.    *)
(*                                                                         *)
(* Python runs the presenter callback on the GUI thread.  The only point   *)
(* where other events can run inside an invocation is the                  *)
(* QDBus.BlockWithGui call, which spins a nested event loop until the      *)
(* reply arrives.  An invocation is therefore two atomic steps: everything *)
(* up to and including the issue of the Notify call, and everything after  *)
(* the reply has been handed back.                                         *)
(***************************************************************************)
EXTENDS Integers, Sequences, FiniteSets, TLC

\* ------------------------------------------------------------- bounds
\* Presenter invocations the engine makes in one behaviour.
MaxPresent == 3
\* Invocations nested inside each other's BlockWithGui wait.
MaxDepth == 2
\* External calls of set_as_presenter_for per profile.
MaxSet == 1
\* Largest icon width and height, in pixels.
MaxSide == 3

\* ------------------------------------------------------------- Qt values
\* QVariant(v) of a Python int: a signed int variant.
QVariant(v) == [type |-> "Int", value |-> v]

\* QVariant.convert(type): the variant takes the target type tag.  A value
\* that is not negative is the same number as a uint32; the model converts
\* no negative value (its uint32 image exceeds the integers TLC supports).
convert(qv, t) ==
    [type  |-> t,
     value |-> CASE t # "UInt"    -> qv.value
                 [] qv.value >= 0 -> qv.value]

\* QDBusArgument(value, QMetaType id): a value with an explicit type tag.
QDBusArgument(v, t) == [type |-> t, value |-> v]

\* A QString carried in a QVariant (a reply argument).
QString(s) == [type |-> "QString", value |-> s]

\* A uint32 carried in a QVariant (a reply argument).
UInt(n) == [type |-> "UInt", value |-> n]

\* QUrl.toDisplayString(): the URL as text with the password removed.
toDisplayString(url) ==
    url.scheme \o "://"
        \o (IF url.user = "" THEN "" ELSE url.user \o "@")
        \o url.host

\* ------------------------------------------------------------- QImage
Formats == {"Format_Mono", "Format_Indexed8", "Format_RGB888",
            "Format_RGB32", "Format_ARGB32", "Format_RGBA8888"}

\* Bits per pixel of a QImage format.
depth(fmt) ==
    CASE fmt = "Format_Mono"     -> 1
      [] fmt = "Format_Indexed8" -> 8
      [] fmt = "Format_RGB888"   -> 24
      [] OTHER                   -> 32

NullImage == [format |-> "Format_Invalid", width |-> 0, height |-> 0]

Images == [format : Formats, width : 1..MaxSide, height : 1..MaxSide]

isNull(img) == img.format = "Format_Invalid"

\* QImage.convertTo(format): in-place change of the pixel format.
convertTo(img, fmt) == [img EXCEPT !.format = fmt]

\* QImage.bytesPerLine(): scanlines are padded to 32 bits.
bytesPerLine(img) == ((img.width * depth(img.format) + 31) \div 32) * 4

\* QImage.byteCount(): the size of the pixel data.
byteCount(img) == bytesPerLine(img) * img.height

\* QImage.hasAlphaChannel().
hasAlphaChannel(img) == img.format \in {"Format_ARGB32", "Format_RGBA8888"}

\* constBits().asstring(n) wrapped in a QByteArray: n bytes of pixel data
\* (the pixel values themselves are not modelled).
QByteArray(n) == [i \in 1..n |-> 0]

\* The image structure with the stride read before the conversion.
_convert_image_stale_stride(qimage) ==
    LET converted == convertTo(qimage, "Format_RGBA8888")
    IN  [type   |-> "structure",
         fields |-> << converted.width, converted.height,
                       bytesPerLine(qimage), hasAlphaChannel(converted),
                       8, 4, QByteArray(byteCount(converted)) >>]

\* DBusNotificationManager._convert_image
_convert_image(qimage) ==
    LET converted == convertTo(qimage, "Format_RGBA8888")
    IN  [type   |-> "structure",
         fields |-> << converted.width, converted.height,
                       bytesPerLine(converted), hasAlphaChannel(converted),
                       8, 4, QByteArray(byteCount(converted)) >>]

\* ------------------------------------------------------------- notifications
\* The QWebEngineNotification objects the engine hands to the presenter.
Handles == {"n1", "n2"}

title(h) ==
    CASE h = "n1" -> "Build failed"
      [] OTHER    -> "New mail"

message(h) ==
    CASE h = "n1" -> "see log"
      [] OTHER    -> "3 unread"

origin(h) ==
    CASE h = "n1" -> [scheme |-> "https", user |-> "", password |-> "",
                      host |-> "ci.example.com"]
      [] OTHER    -> [scheme |-> "https", user |-> "bob", password |-> "hunter2",
                      host |-> "mail.example.org"]

icon(h) ==
    CASE h = "n1" -> NullImage
      [] OTHER    -> [format |-> "Format_Mono", width |-> 2, height |-> 1]

\* The engine's profiles (QWebEngineProfile objects).
Profiles == {"A", "B"}

\* ------------------------------------------------------------- the bus
\* What QDBusInterface.call hands back: a QDBusMessage.  An error reply
\* usually carries its error text as its single argument.
ErrorText == "org.freedesktop.DBus.Error.ServiceUnknown"

\* No reply handed back yet: interface.call has not returned.
NoReply == [type |-> "none", arguments |-> << >>, errorMessage |-> ""]

Replies ==
    { [type |-> "ReplyMessage", arguments |-> args, errorMessage |-> ""] :
        args \in { << >>, <<UInt(0)>>, <<UInt(7)>>, <<UInt(7), UInt(8)>> } }
    \cup
    { [type |-> "ErrorMessage", arguments |-> args, errorMessage |-> ErrorText] :
        args \in { << >>, <<QString(ErrorText)>>,
                   <<QString(ErrorText), QString("detail")>> } }

\* The value QDBusInterface(service, path, interface, bus) yields: the
\* interface object, or a value that is false in a boolean context.
NoInterface == [valid |-> FALSE]

QDBusInterface(service, path, iface, constructs) ==
    IF constructs
    THEN [valid |-> TRUE, service |-> service, path |-> path, interface |-> iface]
    ELSE NoInterface

\* ------------------------------------------------------------- exceptions
Returned == [kind |-> "returned"]

DBusException(text, arg) ==
    [kind |-> "raised", exc |-> "DBusException", text |-> text, arg |-> arg]

\* ------------------------------------------------------------- state
VARIABLES
    session_bus,            \* environment: is the session bus connected
    interface_constructs,   \* environment: does QDBusInterface(...) yield an object
    bridge,                 \* outcome of DBusNotificationManager()
    active_notifications,   \* self.active_notifications, a set of <<id, handle>>
    interface,              \* self.interface
    refs,                   \* per profile: references the profile holds to the callback
    set_calls,              \* per profile: calls of set_as_presenter_for
    stack,                  \* presenter invocations waiting inside interface.call,
                            \* outermost first; n numbers them in order of start
    finished,               \* the invocation that ended last (at most one record)
    presents,               \* presenter invocations started
    calls,                  \* Notify calls issued on the bus
    shown,                  \* per handle: calls of show()
    qimage,                 \* the image last given to _convert_image
    image_data              \* the structure _convert_image last produced

vars == << session_bus, interface_constructs, bridge, active_notifications,
           interface, refs, set_calls, stack, finished, presents, calls,
           shown, qimage, image_data >>

NoImageData == [type |-> "none", fields |-> << >>]

\* ------------------------------------------------------------- __init__
\* The constructor with the connection test left out.
__init___unchecked_bus(connected, constructs) ==
    LET iface == QDBusInterface("org.freedesktop.Notifications",
                                "/org/freedesktop/Notifications",
                                "org.freedesktop.Notifications", constructs)
    IN  IF ~iface.valid
        THEN [outcome |-> DBusException("Could not construct a DBus interface", 0),
              active_notifications |-> {}, interface |-> iface]
        ELSE [outcome |-> Returned,
              active_notifications |-> {}, interface |-> iface]

\* DBusNotificationManager.__init__
__init__(connected, constructs) ==
    IF ~connected
    THEN [outcome |-> DBusException("Failed to connect to DBus session bus", 0),
          active_notifications |-> {}, interface |-> NoInterface]
    ELSE LET iface == QDBusInterface("org.freedesktop.Notifications",
                                     "/org/freedesktop/Notifications",
                                     "org.freedesktop.Notifications", constructs)
         IN  IF ~iface.valid
             THEN [outcome |-> DBusException("Could not construct a DBus interface", 0),
                   active_notifications |-> {}, interface |-> iface]
             ELSE [outcome |-> Returned,
                   active_notifications |-> {}, interface |-> iface]

\* ------------------------------------------------------------- _present
\* The replaces_id argument left as the plain QVariant(0).
notification_id_unconverted == QVariant(0)

\* _present: notification_id = QVariant(0); notification_id.convert(QVariant.UInt)
notification_id == convert(QVariant(0), "UInt")

\* _present: actions_list = QDBusArgument([], QMetaType.QStringList)
actions_list == QDBusArgument(<< >>, "QStringList")

\* The hints with an image-data entry attached whatever the icon is.
hints_always_image(h) ==
    [k \in {"x-qutebrowser-origin", "image-data"} |->
        IF k = "image-data"
        THEN (IF isNull(icon(h)) THEN NoImageData ELSE _convert_image(icon(h)))
        ELSE toDisplayString(origin(h))]

\* _present: the hints dict, with "image-data" only for a non-null icon.
hints(h) ==
    IF ~isNull(icon(h))
    THEN [k \in {"x-qutebrowser-origin", "image-data"} |->
            IF k = "image-data" THEN _convert_image(icon(h))
                                ELSE toDisplayString(origin(h))]
    ELSE [k \in {"x-qutebrowser-origin"} |-> toDisplayString(origin(h))]

\* The Notify arguments with summary and body exchanged.
NotifyArgs_swapped(h) ==
    << "qutebrowser", notification_id, "qutebrowser", message(h), title(h),
       actions_list, hints(h), -1 >>

\* _present: the positional arguments of the Notify call.
NotifyArgs(h) ==
    << "qutebrowser", notification_id, "qutebrowser", title(h), message(h),
       actions_list, hints(h), -1 >>

\* interface.call made with QDBus.Block, which waits for the reply without
\* running an event loop.
CallMode_Block == "Block"

\* _present: the call mode handed to interface.call.  QDBus.BlockWithGui
\* waits for the reply while an event loop keeps running.
CallMode == "BlockWithGui"

\* _present up to the point where interface.call blocks, as the sequence of
\* its effects on the outside world: show(), the icon conversion when there
\* is an icon, and the Notify call.
_present_until_call(h) ==
    << [op |-> "show", handle |-> h] >>
    \o (IF ~isNull(icon(h))
        THEN << [op |-> "_convert_image", qimage |-> icon(h),
                 result |-> hints(h)["image-data"]] >>
        ELSE << >>)
    \o << [op |-> "call", mode |-> CallMode, method |-> "Notify",
           args |-> NotifyArgs(h)] >>

\* _present once interface.call has handed back the reply, without the
\* test of the number of reply arguments.
_present_after_call_unchecked(reply, registry, h) ==
    IF Len(reply.arguments) = 0
    THEN [outcome  |-> [kind |-> "raised", exc |-> "IndexError",
                        text |-> "list index out of range", arg |-> 0],
          logged   |-> << >>,
          registry |-> registry,
          effects  |-> << >>]
    ELSE [outcome  |-> Returned,
          logged   |-> << [text |-> "Sent out notification {}",
                           arg  |-> reply.arguments[1]] >>,
          registry |-> registry,
          effects  |-> << >>]

\* _present writing the first reply value into the registry as soon as a
\* reply message is back: before the test of the number of arguments, and
\* without setting the value 0 apart.
_present_after_call_register_early(reply, registry, h) ==
    LET written == IF reply.type = "ReplyMessage" /\ Len(reply.arguments) >= 1
                   THEN registry \cup {<< reply.arguments[1].value, h >>}
                   ELSE registry
    IN  IF ~(Len(reply.arguments) = 1)
        THEN [outcome  |-> DBusException(
                               "Got an unexpected number of reply arguments {}",
                               Len(reply.arguments)),
              logged   |-> << >>,
              registry |-> written,
              effects  |-> << >>]
        ELSE [outcome  |-> Returned,
              logged   |-> << [text |-> "Sent out notification {}",
                               arg  |-> reply.arguments[1]] >>,
              registry |-> written,
              effects  |-> << >>]

\* _present issuing the Notify call a second time when the reply is not a
\* single value, and waiting again.
_present_after_call_retry(reply, registry, h) ==
    IF ~(Len(reply.arguments) = 1)
    THEN [outcome  |-> Returned,
          logged   |-> << >>,
          registry |-> registry,
          effects  |-> << [op |-> "call", mode |-> CallMode, method |-> "Notify",
                           args |-> NotifyArgs(h)] >>]
    ELSE [outcome  |-> Returned,
          logged   |-> << [text |-> "Sent out notification {}",
                           arg  |-> reply.arguments[1]] >>,
          registry |-> registry,
          effects  |-> << >>]

\* _present once interface.call has handed back the reply: the test of the
\* number of reply arguments, then the log line.  The reply's type is not
\* looked at, self.active_notifications is not written, and nothing further
\* is done to the outside world (effects is empty: no second call).
_present_after_call(reply, registry, h) ==
    IF ~(Len(reply.arguments) = 1)
    THEN [outcome  |-> DBusException("Got an unexpected number of reply arguments {}",
                                     Len(reply.arguments)),
          logged   |-> << >>,
          registry |-> registry,
          effects  |-> << >>]
    ELSE [outcome  |-> Returned,
          logged   |-> << [text |-> "Sent out notification {}",
                           arg  |-> reply.arguments[1]] >>,
          registry |-> registry,
          effects  |-> << >>]

\* ------------------------------------------------------------- the callback
\* The callback without the re-registration.
_present_and_reset_no_reset(profile, h) == _present_until_call(h)

\* The callback re-registering itself only after show().
_present_and_reset_late(profile, h) ==
    << Head(_present_until_call(h)) >>
    \o << [op |-> "setNotificationPresenter", profile |-> profile] >>
    \o Tail(_present_until_call(h))

\* The callback re-registering itself on another profile than the one it
\* was created for.
_present_and_reset_other_profile(profile, h) ==
    << [op |-> "setNotificationPresenter",
        profile |-> CHOOSE q \in Profiles : q # profile] >>
    \o _present_until_call(h)

\* set_as_presenter_for._present_and_reset, up to the blocking call:
\* profile.setNotificationPresenter(_present_and_reset), then _present.
_present_and_reset(profile, h) ==
    << [op |-> "setNotificationPresenter", profile |-> profile] >>
    \o _present_until_call(h)

\* How often an effect sequence performs `op` on `target`.
RECURSIVE Count(_, _, _)
Count(effects, op, target) ==
    IF Len(effects) = 0 THEN 0
    ELSE (IF /\ Head(effects).op = op
             /\ \/ op = "setNotificationPresenter" /\ Head(effects).profile = target
                \/ op = "show" /\ Head(effects).handle = target
                \/ op \in {"call", "_convert_image"}
          THEN 1 ELSE 0)
         + Count(Tail(effects), op, target)

\* The effects of one kind, in order.
Only(effects, op) == SelectSeq(effects, LAMBDA e : e.op = op)

\* ------------------------------------------------------------- actions
\* The application's events can be processed: no invocation is waiting, or
\* every waiting interface.call keeps an event loop running.
EventLoopRuns ==
    \A i \in DOMAIN stack :
        \A j \in DOMAIN stack[i].trace :
            stack[i].trace[j].op = "call" => stack[i].trace[j].mode # "Block"

Init ==
    /\ session_bus \in BOOLEAN
    /\ interface_constructs \in BOOLEAN
    /\ bridge = [state |-> "none", outcome |-> Returned]
    /\ active_notifications = {}
    /\ interface = NoInterface
    /\ refs = [p \in Profiles |-> 0]
    /\ set_calls = [p \in Profiles |-> 0]
    /\ stack = << >>
    /\ finished = << >>
    /\ presents = 0
    /\ calls = 0
    /\ shown = [h \in Handles |-> 0]
    /\ qimage = NullImage
    /\ image_data = NoImageData

\* DBusNotificationManager(): the constructor runs once.
Construct ==
    /\ bridge.state = "none"
    /\ LET r == __init__(session_bus, interface_constructs)
       IN  /\ bridge' = [state   |-> IF r.outcome.kind = "returned"
                                     THEN "ok" ELSE "failed",
                         outcome |-> r.outcome]
           /\ active_notifications' = r.active_notifications
           /\ interface' = r.interface
    /\ UNCHANGED << session_bus, interface_constructs, refs, set_calls, stack,
                    finished, presents, calls, shown, qimage, image_data >>

\* manager.set_as_presenter_for(profile): installs the callback, which gives
\* the profile one reference to it.
set_as_presenter_for(profile) ==
    /\ bridge.state = "ok"
    /\ EventLoopRuns
    /\ set_calls[profile] < MaxSet
    /\ refs' = [refs EXCEPT ![profile] = @ + 1]
    /\ set_calls' = [set_calls EXCEPT ![profile] = @ + 1]
    /\ UNCHANGED << session_bus, interface_constructs, bridge,
                    active_notifications, interface, stack, finished,
                    presents, calls, shown, qimage, image_data >>

\* What an invocation of the callback on `profile` with `h` changes, up to
\* the point where interface.call blocks.
PresentEffects(profile, h) ==
    /\ refs[profile] > 0
    /\ EventLoopRuns
    /\ presents < MaxPresent
    /\ Len(stack) < MaxDepth
    /\ LET effects == _present_and_reset(profile, h)
           convs   == Only(effects, "_convert_image")
       IN  /\ refs' = [q \in Profiles |->
                         refs[q] + Count(effects, "setNotificationPresenter", q)]
           /\ shown' = [g \in Handles |-> shown[g] + Count(effects, "show", g)]
           /\ calls' = calls + Count(effects, "call", h)
           /\ qimage' = IF Len(convs) = 0 THEN qimage
                        ELSE convs[Len(convs)].qimage
           /\ image_data' = IF Len(convs) = 0 THEN image_data
                            ELSE convs[Len(convs)].result
           /\ stack' = Append(stack,
                  [n |-> presents + 1, profile |-> profile, handle |-> h,
                   trace |-> effects, reply |-> NoReply,
                   before |-> active_notifications])
    /\ presents' = presents + 1

\* The invocation dropping self.interface on its way.
Present_drops_interface(profile, h) ==
    /\ PresentEffects(profile, h)
    /\ interface' = NoInterface
    /\ UNCHANGED << session_bus, interface_constructs, bridge,
                    active_notifications, set_calls, finished >>

\* The engine emits a notification on `profile` and the host invokes the
\* installed callback, which runs until interface.call blocks.  It can do so
\* from the top-level event loop or from the loop BlockWithGui keeps running.
\* Neither the callback nor _present assigns an attribute of the bridge.
Present(profile, h) ==
    /\ PresentEffects(profile, h)
    /\ UNCHANGED << session_bus, interface_constructs, bridge,
                    active_notifications, interface, set_calls, finished >>

\* The bus answers the Notify call of the innermost waiting invocation with
\* `reply`: interface.call returns it, the rest of _present runs, the
\* callback ends by returning or raising, and the host releases the reference
\* it called the callback through.  An outer invocation's interface.call
\* cannot return before the inner one has ended, whenever its answer arrives.
Return(reply) ==
    /\ Len(stack) > 0
    /\ LET top   == stack[Len(stack)]
           res   == _present_after_call(reply, active_notifications, top.handle)
           again == Count(res.effects, "call", top.handle)
       IN  /\ active_notifications' = res.registry
           \* the counter stops one above the calls the invocations can issue
           /\ calls' = IF calls + again > MaxPresent THEN MaxPresent + 1
                       ELSE calls + again
           /\ IF again = 0
              THEN /\ finished' = << [n |-> top.n, profile |-> top.profile,
                                      handle |-> top.handle,
                                      trace |-> top.trace, reply |-> reply,
                                      outcome |-> res.outcome,
                                      logged |-> res.logged,
                                      before |-> top.before,
                                      after |-> res.registry] >>
                   /\ refs' = [refs EXCEPT ![top.profile] =
                                  IF @ > 0 THEN @ - 1 ELSE 0]
                   /\ stack' = SubSeq(stack, 1, Len(stack) - 1)
              ELSE \* _present has issued a further call and waits again
                   /\ stack' = [stack EXCEPT ![Len(stack)].reply = reply]
                   /\ UNCHANGED << finished, refs >>
    /\ UNCHANGED << session_bus, interface_constructs, bridge, interface,
                    set_calls, presents, shown, qimage, image_data >>

Next ==
    \/ Construct
    \/ \E profile \in Profiles : set_as_presenter_for(profile)
    \/ \E profile \in Profiles, h \in Handles : Present(profile, h)
    \/ \E reply \in Replies : Return(reply)

Spec == Init /\ [][Next]_vars

\* ------------------------------------------------------------- answered calls
\* The bridge under a bus that eventually answers the Notify call of the
\* innermost waiting invocation, with a reply or with an error.  Whether an
\* invocation ends does not depend on what it presents, so the engine emits
\* one handle here, and the bus answers with an id, with a malformed reply
\* of no or of two values, or with an error.
LiveHandles == {"n2"}

LiveReplies ==
    {r \in Replies :
        \/ r.type = "ReplyMessage" /\ \A i \in DOMAIN r.arguments :
                                         r.arguments[i].value # 0
        \/ r.type = "ErrorMessage" /\ Len(r.arguments) = 1}

LiveNext ==
    \/ Construct
    \/ \E profile \in Profiles : set_as_presenter_for(profile)
    \/ \E profile \in Profiles, h \in LiveHandles : Present(profile, h)
    \/ \E reply \in LiveReplies : Return(reply)

FairSpec ==
    /\ Init
    /\ [][LiveNext]_vars
    /\ WF_vars(\E reply \in LiveReplies : Return(reply))

\* ------------------------------------------------------------- _convert_image alone
\* The image encoder applied to every icon of the bounded set.
InitImage ==
    /\ session_bus = TRUE
    /\ interface_constructs = TRUE
    /\ bridge = [state |-> "none", outcome |-> Returned]
    /\ active_notifications = {}
    /\ interface = NoInterface
    /\ refs = [p \in Profiles |-> 0]
    /\ set_calls = [p \in Profiles |-> 0]
    /\ stack = << >>
    /\ finished = << >>
    /\ presents = 0
    /\ calls = 0
    /\ shown = [h \in Handles |-> 0]
    /\ qimage \in Images
    /\ image_data = NoImageData

ConvertImage ==
    /\ image_data = NoImageData
    /\ image_data' = _convert_image(qimage)
    /\ UNCHANGED << session_bus, interface_constructs, bridge,
                    active_notifications, interface, refs, set_calls, stack,
                    finished, presents, calls, shown, qimage >>

NextImage == ConvertImage

ImageSpec == InitImage /\ [][NextImage]_vars

\* ------------------------------------------------------------- properties
\* The invocations in sight: those waiting, outermost first, then the one
\* that ended last.
Invocations == stack \o finished

\* The Notify calls an invocation has issued.
CallsOf(f) == Only(f.trace, "call")

\* C1: after a present whose Notify call got the single-value reply N, N # 0,
\* the registry holds exactly one entry with key N, and it maps to the
\* presented handle.
C1_RegistryHoldsAssignedId ==
    \A i \in DOMAIN finished :
        LET f == finished[i]
        IN  (/\ f.reply.type = "ReplyMessage"
             /\ Len(f.reply.arguments) = 1
             /\ f.reply.arguments[1].value # 0)
            => /\ << f.reply.arguments[1].value, f.handle >> \in f.after
               /\ Cardinality({e \in f.after :
                                 e[1] = f.reply.arguments[1].value}) = 1

\* C2: once set_as_presenter_for(profile) has been called, the profile holds
\* a live reference to the callback in every state, in particular when an
\* invocation has ended, by returning or by raising; so the next
\* notification is delivered.
C2_CallbackStaysInstalled ==
    /\ \A p \in Profiles : set_calls[p] > 0 => refs[p] > 0
    /\ \A i \in DOMAIN finished : refs[finished[i].profile] > 0

\* The third notification has been delivered after a single
\* set_as_presenter_for and an invocation has ended by raising.
C2_Witness ==
    /\ presents >= 3
    /\ Len(finished) = 1
    /\ finished[1].n = 3
    /\ finished[1].outcome.kind = "raised"
    /\ set_calls[finished[1].profile] = 1
    /\ refs[finished[1].profile] > 0

\* C3: a reply with zero or with two or more arguments makes present raise
\* the unexpected-reply error carrying the number of arguments, and the
\* registry is what it was before the invocation.
C3_WrongArityRaises ==
    \A i \in DOMAIN finished :
        LET f == finished[i]
        IN  Len(f.reply.arguments) # 1
            => /\ f.outcome.kind = "raised"
               /\ f.outcome.exc = "DBusException"
               /\ f.outcome.text = "Got an unexpected number of reply arguments {}"
               /\ f.outcome.arg = Len(f.reply.arguments)
               /\ Len(f.logged) = 0
               /\ f.after = f.before
               /\ active_notifications = f.before

\* An invocation has ended by raising on a reply of two arguments.
C3_Witness ==
    /\ Len(finished) = 1
    /\ Len(finished[1].reply.arguments) = 2
    /\ finished[1].reply.type = "ReplyMessage"
    /\ finished[1].outcome.kind = "raised"
    /\ finished[1].outcome.arg = 2

\* C4: a bus-level error reply, whatever its arguments, makes present raise
\* an error carrying the daemon's error text; no argument of it is taken for
\* an assigned id, and the registry is unchanged.
C4_ErrorReplyRaises ==
    \A i \in DOMAIN finished :
        LET f == finished[i]
        IN  f.reply.type = "ErrorMessage"
            => /\ f.outcome.kind = "raised"
               /\ f.outcome.text = f.reply.errorMessage
               /\ Len(f.logged) = 0
               /\ f.after = f.before

\* The display string Qt gives for each handle's origin: the URL as text,
\* the password left out.
DisplayString(h) ==
    CASE h = "n1" -> "https://ci.example.com"
      [] OTHER    -> "https://bob@mail.example.org"

\* C5: in every Notify call the hints map holds x-qutebrowser-origin, set to
\* the display string of the handle's origin, and holds image-data if and
\* only if the handle's icon is not null; it holds no other key.
C5_HintsOriginAndImage ==
    \A i \in DOMAIN Invocations :
        \A j \in DOMAIN CallsOf(Invocations[i]) :
            LET f  == Invocations[i]
                hs == CallsOf(f)[j].args[7]
            IN  /\ "x-qutebrowser-origin" \in DOMAIN hs
                /\ hs["x-qutebrowser-origin"] = DisplayString(f.handle)
                /\ ("image-data" \in DOMAIN hs) <=> ~isNull(icon(f.handle))
                /\ DOMAIN hs \subseteq {"x-qutebrowser-origin", "image-data"}
                /\ "image-data" \in DOMAIN hs
                      => hs["image-data"].type = "structure"

\* A call for a handle without icon is waiting beneath a call for a handle
\* with one.
C5_Witness ==
    /\ Len(stack) = 2
    /\ isNull(icon(stack[1].handle))
    /\ ~isNull(icon(stack[2].handle))
    /\ DOMAIN stack[1].trace[Len(stack[1].trace)].args[7]
          = {"x-qutebrowser-origin"}

\* C6: in every Notify call replaces_id is the value 0 with the unsigned
\* integer type tag, whatever ids earlier replies returned.
C6_ReplacesIdIsUnsignedZero ==
    \A i \in DOMAIN Invocations :
        \A j \in DOMAIN CallsOf(Invocations[i]) :
            CallsOf(Invocations[i])[j].args[2] = [type |-> "UInt", value |-> 0]

\* The first invocation ended on the reply id = 7 and the second one has
\* issued its call since.
C6_Witness ==
    /\ Len(finished) = 1
    /\ finished[1].n = 1
    /\ finished[1].outcome.kind = "returned"
    /\ finished[1].reply.type = "ReplyMessage"
    /\ finished[1].reply.arguments[1].value = 7
    /\ Len(stack) = 1
    /\ stack[1].n = 2
    /\ stack[1].trace[Len(stack[1].trace)].op = "call"

\* C7: every Notify call is a BlockWithGui call of the method Notify with
\* the eight arguments app_name "qutebrowser", replaces_id, app_icon
\* "qutebrowser", the title and the message of the handle that is being
\* presented, an empty list of strings, the hints and the timeout -1, in
\* this order; each invocation issues exactly one such call.
C7_NotifyArguments ==
    \A i \in DOMAIN Invocations :
        LET f == Invocations[i]
        IN  /\ Len(CallsOf(f)) = 1
            /\ \A j \in DOMAIN CallsOf(f) :
                  LET c == CallsOf(f)[j]
                  IN  /\ c.mode = "BlockWithGui"
                      /\ c.method = "Notify"
                      /\ Len(c.args) = 8
                      /\ c.args[1] = "qutebrowser"
                      /\ c.args[2].value = 0
                      /\ c.args[3] = "qutebrowser"
                      /\ c.args[4] = title(f.handle)
                      /\ c.args[5] = message(f.handle)
                      /\ c.args[6] = [type |-> "QStringList", value |-> << >>]
                      /\ "x-qutebrowser-origin" \in DOMAIN c.args[7]
                      /\ c.args[8] = -1
                      /\ f.handle = "n1" => /\ c.args[4] = "Build failed"
                                            /\ c.args[5] = "see log"

\* Two invocations for different handles wait at the same time, each with
\* its own call.
C7_Witness ==
    /\ Len(stack) = 2
    /\ stack[1].handle = "n1"
    /\ stack[2].handle = "n2"
    /\ stack[2].trace[Len(stack[2].trace)].args[4] = "New mail"

\* C8: when the session bus is not connected, or QDBusInterface yields no
\* usable object, the constructor raises DBusException and there is no
\* bridge: no presenter is ever installed and no Notify call is ever issued.
C8_FailedConstruction ==
    (bridge.state # "none" /\ (~session_bus \/ ~interface_constructs))
    => /\ bridge.state = "failed"
       /\ bridge.outcome.kind = "raised"
       /\ bridge.outcome.exc = "DBusException"
       /\ \A p \in Profiles : refs[p] = 0 /\ set_calls[p] = 0
       /\ presents = 0
       /\ calls = 0
       /\ Len(stack) = 0

\* The constructor has failed on the interface with the bus connected.
C8_Witness ==
    /\ bridge.state = "failed"
    /\ session_bus
    /\ ~interface_constructs
    /\ bridge.outcome.text = "Could not construct a DBus interface"

\* C9: for every non-null icon, whatever its pixel format, the structure
\* _convert_image produces holds width, height, stride, has-alpha, 8, 4 and
\* the payload, in this order; the stride is that of the converted image
\* (four bytes per pixel) and the payload is stride * height bytes long.
C9_ImageStructure ==
    image_data.type = "structure"
    => LET f == image_data.fields
       IN  /\ Len(f) = 7
           /\ f[1] = qimage.width
           /\ f[2] = qimage.height
           /\ f[3] = 4 * qimage.width
           /\ f[4] \in BOOLEAN
           /\ f[5] = 8
           /\ f[6] = 4
           /\ Len(f[7]) = f[3] * f[2]

\* A one-bit image three pixels wide has been encoded.
C9_Witness ==
    /\ image_data.type = "structure"
    /\ qimage.format = "Format_Mono"
    /\ qimage.width = 3
    /\ qimage.height = 2
    /\ Len(image_data.fields[7]) = 24

\* C10: in every invocation of the callback the re-registration on the
\* invocation's profile is the first effect: show(), the icon encoding and
\* the Notify call all come after it.
C10_ResetComesFirst ==
    \A i \in DOMAIN Invocations :
        LET f == Invocations[i]
        IN  /\ Len(f.trace) >= 1
            /\ f.trace[1].op = "setNotificationPresenter"
            /\ f.trace[1].profile = f.profile
            /\ \A j \in 2..Len(f.trace) :
                  f.trace[j].op \in {"show", "_convert_image", "call"}
            /\ \E j \in 2..Len(f.trace) : f.trace[j].op = "show"
            /\ \E j \in 2..Len(f.trace) : f.trace[j].op = "call"

\* An invocation with an icon is waiting: it re-registered, called show(),
\* encoded the icon and issued the call.
C10_Witness ==
    /\ Len(stack) >= 1
    /\ Len(stack[1].trace) = 4
    /\ stack[1].trace[1].op = "setNotificationPresenter"
    /\ stack[1].trace[3].op = "_convert_image"

\* C11: the Notify calls issued are as many as the present invocations that
\* reached the call: the constructor and set_as_presenter_for issue none,
\* every invocation has issued exactly one, and an invocation that ended on
\* a failed call or a malformed reply issued no second one.
C11_OneCallPerPresent ==
    /\ calls = presents
    /\ bridge.state # "ok" => calls = 0
    /\ (\A p \in Profiles : refs[p] = 0) => calls = 0
    /\ \A i \in DOMAIN Invocations : Len(CallsOf(Invocations[i])) = 1
    /\ \A i \in DOMAIN stack : stack[i].reply = NoReply

\* Two invocations have ended, the last one by raising on a malformed
\* reply, after set_as_presenter_for on both profiles; two calls were issued.
C11_Witness ==
    /\ presents = 2
    /\ calls = 2
    /\ Len(stack) = 0
    /\ Len(finished) = 1
    /\ finished[1].outcome.kind = "raised"
    /\ \A p \in Profiles : set_calls[p] = 1

\* C12: the bridge never has more than one Notify call outstanding: no
\* second call is issued while an earlier one still waits for its reply,
\* also when the engine emits a notification during the wait.
C12_SingleOutstandingCall ==
    Cardinality({i \in DOMAIN stack : stack[i].reply = NoReply}) <= 1

\* C13: while an invocation waits for the reply to its Notify call an event
\* loop keeps running, and the application's other events stay enabled: a
\* further notification can be delivered and set_as_presenter_for can be
\* called before the reply arrives.
C13_EventsEnabledDuringWait ==
    Len(stack) > 0
    => /\ EventLoopRuns
       /\ (presents < MaxPresent /\ Len(stack) < MaxDepth)
             => \E p \in Profiles : \A h \in Handles : ENABLED Present(p, h)
       /\ \A p \in Profiles :
             set_calls[p] < MaxSet => ENABLED set_as_presenter_for(p)

\* An event has been processed inside a wait: the second invocation started
\* while the first one still waits for its reply.
C13_Witness ==
    /\ Len(stack) = 2
    /\ stack[1].reply = NoReply
    /\ stack[2].n = stack[1].n + 1
    /\ presents = 2
    /\ Len(finished) = 0

\* The reply assigns an id: a reply message with exactly one value.
Successful(reply) ==
    reply.type = "ReplyMessage" /\ Len(reply.arguments) = 1

\* C14: the registry never has an entry with key 0, neither from the
\* request, which sends 0 as replaces_id, nor from a reply whose value is 0.
C14_NoSentinelKey ==
    \A e \in active_notifications : e[1] # 0

\* An invocation has ended normally on the reply value 0, after a call that
\* sent replaces_id 0, and the registry holds no key 0.
C14_Witness ==
    /\ Len(finished) = 1
    /\ finished[1].outcome.kind = "returned"
    /\ finished[1].reply.type = "ReplyMessage"
    /\ finished[1].reply.arguments[1].value = 0
    /\ CallsOf(finished[1])[1].args[2].value = 0
    /\ ~(\E e \in active_notifications : e[1] = 0)

\* C15: every handle in the registry has had show() called, and an entry
\* enters the registry only in the step in which its handle's own Notify
\* call returns a successful reply, with the id of that reply as its key; no
\* handle is registered while its call is unanswered or after it failed.
C15_RegisteredOnlyWhenConfirmed ==
    /\ [](\A e \in active_notifications : shown[e[2]] > 0)
    /\ [][\A e \in active_notifications' \ active_notifications :
             /\ Len(finished') = 1
             /\ Len(stack') = Len(stack) - 1
             /\ finished'[1].handle = e[2]
             /\ Successful(finished'[1].reply)
             /\ finished'[1].reply.arguments[1].value = e[1]
             /\ shown[e[2]] > 0]_vars

\* One handle's call has failed and another handle's call is unanswered;
\* both have been shown and neither is in the registry.
C15_Witness ==
    /\ Len(stack) = 1
    /\ Len(finished) = 1
    /\ ~Successful(finished[1].reply)
    /\ finished[1].handle # stack[1].handle
    /\ shown[stack[1].handle] > 0
    /\ shown[finished[1].handle] > 0
    /\ \A e \in active_notifications :
          e[2] \notin {stack[1].handle, finished[1].handle}

\* C16: every invocation calls the handle's show() exactly once, before it
\* issues the Notify call; when the call fails or the reply is malformed the
\* handle is shown, is not in the registry, and the invocation ends by
\* raising.
C16_ShownThenFailureRaised ==
    /\ \A i \in DOMAIN Invocations :
          LET t == Invocations[i].trace
          IN  /\ Len(Only(t, "show")) = 1
              /\ \A j, k \in DOMAIN t :
                    (t[j].op = "show" /\ t[k].op = "call")
                    => j < k /\ t[j].handle = Invocations[i].handle
    /\ \A i \in DOMAIN finished :
          LET f == finished[i]
          IN  ~Successful(f.reply)
              => /\ shown[f.handle] > 0
                 /\ \A e \in f.after : e[2] # f.handle
                 /\ f.outcome.kind = "raised"

\* C17: once the constructor has succeeded the remote interface handle is
\* the same in every state: bound to the service
\* org.freedesktop.Notifications, the path /org/freedesktop/Notifications
\* and the interface org.freedesktop.Notifications, whatever
\* set_as_presenter_for, the callback, _present and _convert_image did since,
\* failed invocations included.
C17_InterfaceStaysBound ==
    bridge.state = "ok"
    => interface = [valid     |-> TRUE,
                    service   |-> "org.freedesktop.Notifications",
                    path      |-> "/org/freedesktop/Notifications",
                    interface |-> "org.freedesktop.Notifications"]

\* Invocations with and without icon have run on both profiles and the last
\* one failed; the handle is still bound.
C17_Witness ==
    /\ bridge.state = "ok"
    /\ interface.valid
    /\ interface.path = "/org/freedesktop/Notifications"
    /\ \A p \in Profiles : set_calls[p] > 0
    /\ presents >= 2
    /\ image_data.type = "structure"
    /\ Len(finished) = 1
    /\ finished[1].outcome.kind = "raised"

\* C18: with the bridge installed on two profiles, each invocation
\* re-registers the callback on the profile it was created for and on no
\* other: a profile holds one reference per set_as_presenter_for call on it
\* and one per invocation of its own callback that has not ended, whatever
\* the other profile's notifications did.
C18_ReRegistersOnOwnProfile ==
    /\ \A p \in Profiles :
          refs[p] = set_calls[p]
                    + Cardinality({i \in DOMAIN stack : stack[i].profile = p})
    /\ \A i \in DOMAIN Invocations :
          \A j \in DOMAIN Invocations[i].trace :
              Invocations[i].trace[j].op = "setNotificationPresenter"
              => Invocations[i].trace[j].profile = Invocations[i].profile

\* A notification of profile B is presented inside the wait of one of
\* profile A, after one of profile B has ended.
C18_Witness ==
    /\ \A p \in Profiles : set_calls[p] = 1
    /\ Len(stack) = 2
    /\ stack[1].profile = "A"
    /\ stack[2].profile = "B"
    /\ Len(finished) = 1
    /\ finished[1].profile = "B"
    /\ refs = [p \in Profiles |-> 2]

\* The invocation numbered k is waiting inside interface.call.
Waiting(k) == \E i \in DOMAIN stack : stack[i].n = k

\* C19: when every Notify call is eventually answered, every invocation that
\* started eventually ends, by returning or by raising, also when further
\* invocations start inside its wait: whenever invocations are waiting, a
\* state follows in which none of them, nor any started since, still waits.
C19_EveryPresentEnds ==
    (\E k \in 1..MaxPresent : Waiting(k)) ~> (\A k \in 1..MaxPresent : ~Waiting(k))

\* The first invocation has ended after the later ones, which started and
\* ended inside its wait.
C19_Witness ==
    /\ presents >= 2
    /\ Len(stack) = 0
    /\ Len(finished) = 1
    /\ finished[1].n = 1
    /\ calls = presents

====
